---- MODULE Spec2Model ----
(***************************************************************************)
(* Model of the command line entry point of openapi-spec-validator         *)
(* (openapi_spec_validator/__main__.py): the loop of main over the file    *)
(* arguments, and the three printers print_ok, print_error and             *)
(* print_validationerror.                                                  *)
(*                                                                         *)
(* The readers, the validators and jsonschema's best_match are imported    *)
(* (lines 7-15); their bodies are not part of this file.  Their outcomes   *)
(* are therefore chosen nondeterministically: a reader returns a document  *)
(* or raises, validate returns, raises a ValidationError or raises another *)
(* exception, and best_match returns one of the errors it was given.       *)
(*                                                                         *)
(* Standard output is the sequence `out` of printed items, one item per    *)
(* call of print().                                                        *)
(***************************************************************************)
EXTENDS Naturals, Sequences, FiniteSets, TLC

VARIABLES file, errors, schema, idx, pc, filename, reader, spec, out,
          sysExit, reads, called, raised

vars == <<file, errors, schema, idx, pc, filename, reader, spec, out,
          sysExit, reads, called, raised>>

----------------------------------------------------------------------------
(* Bounds of the model *)

MaxFiles == 2
MaxContext == 3

(* Sample inputs *)

FileArgs == {"a.yaml", "-", "/-"}
PathDepths == {2, 3, 4}
Documents == {"swagger: 2.0", "openapi: 3.1.0", "no version field"}
ReaderErrors == {"FileNotFoundError"}
CallFailures == {"UnknownVersion", "UnresolvableReference"}

SeqUpTo(S, n) == UNION {[1..k -> S] : k \in 0..n}

----------------------------------------------------------------------------
(* Command line (argparse declarations, lines 55-75) *)

ErrorsChoices == {"best-match", "all"}
SchemaChoices == {"2.0", "3.0.0", "3.1.0", "detect"}

(* args_parsed.file: nargs="+" gives a non-empty list *)
FileLists == SeqUpTo(FileArgs, MaxFiles) \ {<<>>}

----------------------------------------------------------------------------
(* jsonschema ValidationError objects as they reach print_validationerror: *)
(* the attributes the printer reads are str(exc), exc.cause, exc.context.  *)
(* A context entry is identified by the depth of its path.                 *)

None == "None"

ContextEntries == [depth : PathDepths]

ValidationErrors ==
    [message : {"invalid"},
     cause   : {None, "cause"},
     context : SeqUpTo(ContextEntries, MaxContext)]

NoEntry == [depth |-> 0]
NoExc == [message |-> None, cause |-> None, context |-> <<>>]

----------------------------------------------------------------------------
(* Printed items *)

Item(kind, name, text, subs, n) ==
    [kind |-> kind, name |-> name, text |-> text, subs |-> subs, n |-> n]

(* "## " + str(e) *)
Prefixed(e) == [prefix |-> "## ", err |-> e]

print_ok(fname) == <<Item("OK", fname, "", <<>>, 0)>>

print_error(fname, exc) == <<Item("Error", fname, exc, <<>>, 0)>>

(* best_match(errors): jsonschema's function; some element of its argument *)
best_match(context) == {context[k] : k \in DOMAIN context}

(* whether print_validationerror reaches the call of best_match *)
CallsBestMatch(exc, errs) == exc.context # <<>> /\ errs = "best-match"

print_validationerror_AllCounts(fname, exc, errs, best) ==
    <<Item("Validation Error", fname, exc.message, <<>>, 0)>>
    \o (IF exc.cause # None
        THEN <<Item("# Cause", "", "", <<>>, 0),
               Item("cause", "", exc.cause, <<>>, 0)>>
        ELSE <<>>)
    \o (IF exc.context = <<>> THEN <<>>
        ELSE IF errs = "all" THEN
            <<Item("# Due to one of those errors", "", "", <<>>, 0),
              Item("subschema errors", "", "",
                   [k \in DOMAIN exc.context |-> Prefixed(exc.context[k])], 0)>>
            \o (IF Len(exc.context) > 1
                THEN <<Item("more subschemas errors", "", "", <<>>,
                            Len(exc.context) - 1)>>
                ELSE <<>>)
        ELSE IF errs = "best-match" THEN
            <<Item("# Probably due to this subschema error", "", "", <<>>, 0),
              Item("best match", "", "", <<Prefixed(best)>>, 0)>>
            \o (IF Len(exc.context) > 1
                THEN <<Item("more subschemas errors", "", "", <<>>,
                            Len(exc.context) - 1)>>
                ELSE <<>>)
        ELSE <<>>)

print_validationerror_DropsFirst(fname, exc, errs, best) ==
    <<Item("Validation Error", fname, exc.message, <<>>, 0)>>
    \o (IF exc.cause # None
        THEN <<Item("# Cause", "", "", <<>>, 0),
               Item("cause", "", exc.cause, <<>>, 0)>>
        ELSE <<>>)
    \o (IF exc.context = <<>> THEN <<>>
        ELSE IF errs = "all" THEN
            <<Item("# Due to one of those errors", "", "", <<>>, 0),
              Item("subschema errors", "", "",
                   [k \in 1..(Len(exc.context) - 1) |->
                        Prefixed(exc.context[k + 1])], 0)>>
        ELSE IF errs = "best-match" THEN
            <<Item("# Probably due to this subschema error", "", "", <<>>, 0),
              Item("best match", "", "", <<Prefixed(best)>>, 0)>>
            \o (IF Len(exc.context) > 1
                THEN <<Item("more subschemas errors", "", "", <<>>,
                            Len(exc.context) - 1)>>
                ELSE <<>>)
        ELSE <<>>)

print_validationerror_NoEarlyReturn(fname, exc, errs, best) ==
    <<Item("Validation Error", fname, exc.message, <<>>, 0)>>
    \o (IF exc.cause # None
        THEN <<Item("# Cause", "", "", <<>>, 0),
               Item("cause", "", exc.cause, <<>>, 0)>>
        ELSE <<>>)
    \o (IF errs = "all" THEN
            <<Item("# Due to one of those errors", "", "", <<>>, 0),
              Item("subschema errors", "", "",
                   [k \in DOMAIN exc.context |-> Prefixed(exc.context[k])], 0)>>
        ELSE IF errs = "best-match" THEN
            <<Item("# Probably due to this subschema error", "", "", <<>>, 0),
              Item("best match", "", "", <<Prefixed(best)>>, 0)>>
            \o (IF Len(exc.context) > 1
                THEN <<Item("more subschemas errors", "", "", <<>>,
                            Len(exc.context) - 1)>>
                ELSE <<>>)
        ELSE <<>>)

print_validationerror_CountsAll(fname, exc, errs, best) ==
    <<Item("Validation Error", fname, exc.message, <<>>, 0)>>
    \o (IF exc.cause # None
        THEN <<Item("# Cause", "", "", <<>>, 0),
               Item("cause", "", exc.cause, <<>>, 0)>>
        ELSE <<>>)
    \o (IF exc.context = <<>> THEN <<>>
        ELSE IF errs = "all" THEN
            <<Item("# Due to one of those errors", "", "", <<>>, 0),
              Item("subschema errors", "", "",
                   [k \in DOMAIN exc.context |-> Prefixed(exc.context[k])], 0)>>
        ELSE IF errs = "best-match" THEN
            <<Item("# Probably due to this subschema error", "", "", <<>>, 0),
              Item("best match", "", "", <<Prefixed(best)>>, 0)>>
            \o (IF Len(exc.context) >= 1
                THEN <<Item("more subschemas errors", "", "", <<>>,
                            Len(exc.context) - 1)>>
                ELSE <<>>)
        ELSE <<>>)

(* print_validationerror(filename, exc, errors); `best` is the value the   *)
(* call best_match(exc.context) of line 46 returns when it is reached.     *)
print_validationerror(fname, exc, errs, best) ==
    <<Item("Validation Error", fname, exc.message, <<>>, 0)>>
    \o (IF exc.cause # None
        THEN <<Item("# Cause", "", "", <<>>, 0),
               Item("cause", "", exc.cause, <<>>, 0)>>
        ELSE <<>>)
    \o (IF exc.context = <<>> THEN <<>>
        ELSE IF errs = "all" THEN
            <<Item("# Due to one of those errors", "", "", <<>>, 0),
              Item("subschema errors", "", "",
                   [k \in DOMAIN exc.context |-> Prefixed(exc.context[k])], 0)>>
        ELSE IF errs = "best-match" THEN
            <<Item("# Probably due to this subschema error", "", "", <<>>, 0),
              Item("best match", "", "", <<Prefixed(best)>>, 0)>>
            \o (IF Len(exc.context) > 1
                THEN <<Item("more subschemas errors", "", "", <<>>,
                            Len(exc.context) - 1)>>
                ELSE <<>>)
        ELSE <<>>)

----------------------------------------------------------------------------
(* main *)

validators_PinIgnored ==
    [s \in SchemaChoices |->
        IF s = "2.0" THEN "openapi_v2_spec_validator"
        ELSE "openapi_spec_validator_proxy"]

validators ==
    [s \in SchemaChoices |->
        CASE s = "2.0"    -> "openapi_v2_spec_validator"
          [] s = "3.0.0"  -> "openapi_v30_spec_validator"
          [] s = "3.1.0"  -> "openapi_v31_spec_validator"
          [] s = "detect" -> "openapi_spec_validator_proxy"]

NotRaised == [at |-> "none", type |-> "none", pos |-> 0,
              exc |-> NoExc, best |-> NoEntry]

Init ==
    /\ file \in FileLists
    /\ errors \in ErrorsChoices
    /\ schema \in SchemaChoices
    /\ idx = 1
    /\ pc = "for"
    /\ filename = ""
    /\ reader = ""
    /\ spec = ""
    /\ out = <<>>
    /\ sysExit = <<>>
    /\ reads = <<>>
    /\ called = <<>>
    /\ raised = NotRaised

(* for filename in args_parsed.file: choose source *)
ChooseSource ==
    /\ pc = "for"
    /\ idx <= Len(file)
    /\ IF file[idx] \in {"-", "/-"}
       THEN filename' = "stdin" /\ reader' = "read_from_stdin"
       ELSE filename' = file[idx] /\ reader' = "read_from_filename"
    /\ pc' = "read"
    /\ UNCHANGED <<file, errors, schema, idx, spec, out, sysExit, reads,
                   called, raised>>

(* the loop is exhausted: main returns *)
Return ==
    /\ pc = "for"
    /\ idx > Len(file)
    /\ pc' = "returned"
    /\ UNCHANGED <<file, errors, schema, idx, filename, reader, spec, out,
                   sysExit, reads, called, raised>>

(* spec, spec_url = reader(filename) *)
ReadSource ==
    /\ pc = "read"
    /\ \E d \in Documents : spec' = d
    /\ reads' = Append(reads, [reader |-> reader, filename |-> filename])
    /\ pc' = "validate"
    /\ UNCHANGED <<file, errors, schema, idx, filename, reader, out, sysExit,
                   called, raised>>

ReadSourceRaises_Status2 ==
    /\ pc = "read"
    /\ \E e \in ReaderErrors :
        /\ out' = Append(out, Item("exception", "", e, <<>>, 0))
        /\ raised' = [NotRaised EXCEPT !.at = "read", !.type = e, !.pos = idx]
    /\ reads' = Append(reads, [reader |-> reader, filename |-> filename])
    /\ sysExit' = <<2>>
    /\ pc' = "exited"
    /\ UNCHANGED <<file, errors, schema, idx, filename, reader, spec, called>>

(* except Exception as exc: print(exc); sys.exit(1) *)
ReadSourceRaises ==
    /\ pc = "read"
    /\ \E e \in ReaderErrors :
        /\ out' = Append(out, Item("exception", "", e, <<>>, 0))
        /\ raised' = [NotRaised EXCEPT !.at = "read", !.type = e, !.pos = idx]
    /\ reads' = Append(reads, [reader |-> reader, filename |-> filename])
    /\ sysExit' = <<1>>
    /\ pc' = "exited"
    /\ UNCHANGED <<file, errors, schema, idx, filename, reader, spec, called>>

(* validator = validators[args_parsed.schema]; validator.validate(...) *)
Call == [validator |-> validators[schema], filename |-> filename]

ValidateReturns_NoOk ==
    /\ pc = "validate"
    /\ called' = Append(called, Call)
    /\ out' = out
    /\ idx' = idx + 1
    /\ pc' = "for"
    /\ UNCHANGED <<file, errors, schema, filename, reader, spec, sysExit,
                   reads, raised>>

(* else: print_ok(filename) *)
ValidateReturns ==
    /\ pc = "validate"
    /\ called' = Append(called, Call)
    /\ out' = out \o print_ok(filename)
    /\ idx' = idx + 1
    /\ pc' = "for"
    /\ UNCHANGED <<file, errors, schema, filename, reader, spec, sysExit,
                   reads, raised>>

(* except ValidationError as exc: print_validationerror(...); sys.exit(1) *)
ValidateRaisesValidationError ==
    /\ pc = "validate"
    /\ called' = Append(called, Call)
    /\ \E exc \in ValidationErrors :
        \E best \in (IF CallsBestMatch(exc, errors)
                     THEN best_match(exc.context) ELSE {NoEntry}) :
            /\ out' = out \o print_validationerror(filename, exc, errors, best)
            /\ raised' = [at |-> "validate", type |-> "ValidationError",
                          pos |-> idx, exc |-> exc, best |-> best]
    /\ sysExit' = <<1>>
    /\ pc' = "exited"
    /\ UNCHANGED <<file, errors, schema, idx, filename, reader, spec, reads>>

ValidateRaisesException_Status1 ==
    /\ pc = "validate"
    /\ called' = Append(called, Call)
    /\ \E e \in CallFailures :
        /\ out' = out \o print_error(filename, e)
        /\ raised' = [NotRaised EXCEPT !.at = "validate", !.type = e,
                                       !.pos = idx]
    /\ sysExit' = <<1>>
    /\ pc' = "exited"
    /\ UNCHANGED <<file, errors, schema, idx, filename, reader, spec, reads>>

ValidateRaisesException_Continues ==
    /\ pc = "validate"
    /\ called' = Append(called, Call)
    /\ \E e \in CallFailures :
        /\ out' = out \o print_error(filename, e)
        /\ raised' = [NotRaised EXCEPT !.at = "validate", !.type = e,
                                       !.pos = idx]
    /\ idx' = idx + 1
    /\ pc' = "for"
    /\ UNCHANGED <<file, errors, schema, filename, reader, spec, reads,
                   sysExit>>

(* except Exception as exc: print_error(filename, exc); sys.exit(2) *)
ValidateRaisesException ==
    /\ pc = "validate"
    /\ called' = Append(called, Call)
    /\ \E e \in CallFailures :
        /\ out' = out \o print_error(filename, e)
        /\ raised' = [NotRaised EXCEPT !.at = "validate", !.type = e,
                                       !.pos = idx]
    /\ sysExit' = <<2>>
    /\ pc' = "exited"
    /\ UNCHANGED <<file, errors, schema, idx, filename, reader, spec, reads>>

Next ==
    \/ ChooseSource
    \/ Return
    \/ ReadSource
    \/ ReadSourceRaises
    \/ ValidateReturns
    \/ ValidateRaisesValidationError
    \/ ValidateRaisesException

Spec == Init /\ [][Next]_vars

----------------------------------------------------------------------------
(* Vocabulary of the properties *)

Invalid == raised.at = "validate" /\ raised.type = "ValidationError"
CallFailed == raised.at = "validate" /\ raised.type \in CallFailures
ReaderFailed == raised.at = "read"

Kinds(seq, kind) == SelectSeq(seq, LAMBDA it : it.kind = kind)
Count(seq, kind) == Len(Kinds(seq, kind))

(* the name under which the file argument at position k is reported *)
ReportedName(k) == IF file[k] \in {"-", "/-"} THEN "stdin" ELSE file[k]

(* what main printed for the file on which the exception was raised *)
Report == SubSeq(out, raised.pos, Len(out))

HeaderAndCause ==
    <<Item("Validation Error", ReportedName(raised.pos), raised.exc.message,
           <<>>, 0)>>
    \o (IF raised.exc.cause = None THEN <<>>
        ELSE <<Item("# Cause", "", "", <<>>, 0),
               Item("cause", "", raised.exc.cause, <<>>, 0)>>)

OkLines(m) == [k \in 1..m |-> Item("OK", ReportedName(k), "", <<>>, 0)]

----------------------------------------------------------------------------
(* C1: a ValidationError raised by validate is reported as                 *)
(* '<filename>: Validation Error: ...' and ends the process with status 1; *)
(* any other exception raised by validate is reported as                   *)
(* '<filename>: Error: ...' and ends it with status 2; neither kind of     *)
(* exception is ever reported through the other path.                      *)
C1_StatusDistinguishesInvalidFromCallFailure ==
    /\ Invalid =>
        /\ sysExit = <<1>>
        /\ Count(Report, "Validation Error") = 1
        /\ Report[1].kind = "Validation Error"
        /\ Report[1].name = ReportedName(raised.pos)
        /\ Count(out, "Error") = 0
    /\ CallFailed =>
        /\ sysExit = <<2>>
        /\ Report = <<Item("Error", ReportedName(raised.pos), raised.type,
                           <<>>, 0)>>
        /\ Count(out, "Validation Error") = 0

C1_Witness ==
    /\ CallFailed
    /\ raised.type = "UnknownVersion"
    /\ schema = "detect"
    /\ spec = "no version field"
    /\ sysExit = <<2>>

(* C3 as stated: in "all" mode the three-candidate branch point is         *)
(* reported with a "(2 more subschemas errors...)" line.                   *)
C3_AllModeReportsTwoMore ==
    (Invalid /\ errors = "all" /\ Len(raised.exc.context) = 3) =>
        \E k \in DOMAIN Report :
            Report[k].kind = "more subschemas errors" /\ Report[k].n = 2

(* C3 amended: in "all" mode a branch point is reported with its           *)
(* candidates and without any remaining-count line; the "(2 more           *)
(* subschemas errors...)" line of the three-candidate branch point is      *)
(* printed in best-match mode.                                             *)
C3_RemainingCountOnlyInBestMatch ==
    /\ (Invalid /\ errors = "all" /\ raised.exc.context # <<>>) =>
        /\ Count(Report, "more subschemas errors") = 0
        /\ Count(Report, "subschema errors") = 1
    /\ (Invalid /\ errors = "best-match" /\ Len(raised.exc.context) = 3) =>
        /\ Count(Report, "more subschemas errors") = 1
        /\ Kinds(Report, "more subschemas errors")[1].n = 2

C3_Witness ==
    /\ Invalid
    /\ errors = "all"
    /\ Len(raised.exc.context) = 3
    /\ Len(Report[Len(Report)].subs) = 3

(* C4: in "all" mode every context entry is printed exactly once, each     *)
(* prefixed '## ', in the order of exc.context, and no best-match          *)
(* selection is printed.                                                   *)
C4_AllModePrintsEveryEntryInOrder ==
    (Invalid /\ errors = "all" /\ raised.exc.context # <<>>) =>
        /\ Count(Report, "subschema errors") = 1
        /\ LET printed == Kinds(Report, "subschema errors")[1].subs
           IN /\ Len(printed) = Len(raised.exc.context)
              /\ \A k \in DOMAIN printed :
                    /\ printed[k].prefix = "## "
                    /\ printed[k].err = raised.exc.context[k]
        /\ Count(Report, "# Due to one of those errors") = 1
        /\ Count(Report, "best match") = 0
        /\ Count(Report, "# Probably due to this subschema error") = 0

C4_Witness ==
    /\ Invalid
    /\ errors = "all"
    /\ Len(raised.exc.context) = 3
    /\ raised.exc.context[1].depth = 2
    /\ raised.exc.context[2].depth = 4
    /\ raised.exc.context[3].depth = 3
    /\ Report[Len(Report)].subs[2].err.depth = 4

(* C5: every call of validate goes to the validator of the pinned version  *)
(* when --schema is 2.0, 3.0.0 or 3.1.0, whatever the document read        *)
(* carries, and to the detecting proxy exactly when --schema is detect.    *)
C5_PinnedSchemaBypassesDetection ==
    \A k \in DOMAIN called :
        /\ schema = "2.0" => called[k].validator = "openapi_v2_spec_validator"
        /\ schema = "3.0.0" =>
              called[k].validator = "openapi_v30_spec_validator"
        /\ schema = "3.1.0" =>
              called[k].validator = "openapi_v31_spec_validator"
        /\ called[k].validator = "openapi_spec_validator_proxy"
              <=> schema = "detect"

C5_Witness ==
    /\ schema = "3.0.0"
    /\ spec = "openapi: 3.1.0"
    /\ called # <<>>
    /\ called[Len(called)].validator = "openapi_v30_spec_validator"

(* C6: when validate raises a non-ValidationError exception for the file   *)
(* at position i, exactly one '<filename>: Error: <exc>' line is printed   *)
(* and no file at a later position is read, validated or reported.         *)
C6_CallFailureStops ==
    CallFailed =>
        /\ Count(out, "Error") = 1
        /\ out[Len(out)] = Item("Error", ReportedName(raised.pos),
                                raised.type, <<>>, 0)
        /\ Len(reads) = raised.pos
        /\ Len(called) = raised.pos
        /\ Len(out) = raised.pos
        /\ pc = "exited"
        /\ ~ ENABLED Next

C6_Witness ==
    /\ CallFailed
    /\ raised.pos = 1
    /\ Len(file) = 2
    /\ Len(reads) = 1

(* C7: for an error with empty context the report is the header followed   *)
(* by the '# Cause' section exactly when exc.cause is set, in 'best-match' *)
(* and in 'all' mode alike; nothing about subschemas is printed.           *)
C7_EmptyContextIsPassThrough ==
    (Invalid /\ raised.exc.context = <<>>) =>
        /\ Report = HeaderAndCause
        /\ Count(Report, "# Cause") = 1 <=> raised.exc.cause # None

C7_Witness ==
    /\ Invalid
    /\ errors = "all"
    /\ raised.exc.context = <<>>
    /\ raised.exc.cause # None
    /\ Len(Report) = 3

(* C8: in best-match mode a branch point with n >= 1 entries is reported   *)
(* with exactly one sub-error, the one best_match returned, and with the   *)
(* remaining-count line, carrying n - 1 >= 1, exactly when n > 1.          *)
C8_BestMatchPrintsOneAndCountsTheRest ==
    (Invalid /\ errors = "best-match" /\ raised.exc.context # <<>>) =>
        LET n == Len(raised.exc.context)
            more == Kinds(Report, "more subschemas errors")
        IN /\ Count(Report, "best match") = 1
           /\ Kinds(Report, "best match")[1].subs = <<Prefixed(raised.best)>>
           /\ raised.best \in best_match(raised.exc.context)
           /\ Count(Report, "subschema errors") = 0
           /\ Len(more) = (IF n > 1 THEN 1 ELSE 0)
           /\ \A k \in DOMAIN more : more[k].n = n - 1 /\ more[k].n >= 1

C8_Witness ==
    /\ Invalid
    /\ errors = "best-match"
    /\ Len(raised.exc.context) = 1
    /\ Count(Report, "best match") = 1
    /\ Count(Report, "more subschemas errors") = 0

(* C9: main returns normally exactly when every file was read and          *)
(* validated without an exception; the '<filename>: OK' lines are one per  *)
(* file preceding the first failing file, in argument order; an Invalid    *)
(* file ends the run and no later file is read, validated or reported.     *)
C9_OkLinesAndNormalReturn ==
    /\ pc = "returned" <=>
          (raised.at = "none" /\ Len(called) = Len(file) /\ sysExit = <<>>
           /\ ~ ENABLED Next)
    /\ raised.at # "none" => pc = "exited" /\ sysExit # <<>>
    /\ Kinds(out, "OK") =
          OkLines(IF raised.at = "none" THEN Len(called) ELSE raised.pos - 1)
    /\ pc = "returned" => out = OkLines(Len(file)) /\ Len(reads) = Len(file)
    /\ Invalid =>
          /\ Len(reads) = raised.pos
          /\ Len(called) = raised.pos
          /\ SubSeq(out, 1, raised.pos - 1) = OkLines(raised.pos - 1)
          /\ ~ ENABLED Next

C9_Witness ==
    /\ pc = "returned"
    /\ Len(file) = 2
    /\ file[1] = "-"
    /\ out = <<Item("OK", "stdin", "", <<>>, 0),
               Item("OK", file[2], "", <<>>, 0)>>

====
